---- MODULE Spec2Model ----
(***************************************************************************)
(* Model of package htmlutil (twodarek/go-htmlutil).                       *)
(*                                                                         *)
(*   src/htmlutil.go        GetHtmlNodes, GetAllHtmlNodes,                 *)
(*                          GetFirstHtmlNode, RemoveHtmlAttrs,             *)
(*                          RemoveHtmlNodes and their wrappers             *)
(*   src/unnamed/part_000   the variant of the search that also returns    *)
(*                          ErrNodeNotFound (names suffixed V0 here)       *)
(*                                                                         *)
(* The heap is a sequence of html.Node structs; a *html.Node is an index   *)
(* into it and Nil is the nil pointer.  A panic of the Go runtime (nil     *)
(* dereference, slice bounds out of range) ends the call in pc = "panic"   *)
(* with every write made before it kept.                                   *)
(***************************************************************************)
EXTENDS Integers, Sequences, FiniteSets, TLC

\* ------------------------------------------------------------------ bounds
\* nodes plus attribute pairs of the input tree
MaxSize == 5
\* the largest bounded count a call is made with
MaxCount == 2

\* ------------------------------------------------------- values of the model
Nil == 0

Tags == {"p", "div"}
AttrPairs == {<<"id", "a">>, <<"id", "b">>, <<"class", "a">>}

\* the arguments the calls are made with
TagArgs == {"", "p"}
AttrArgs == {"", "id"}
ValArgs == {"", "a"}
CountArgs == {-1} \cup (1..MaxCount)

\* html.Node{}: the zero value of the struct
ZeroNode ==
    [Type |-> "ErrorNode", Data |-> "", Attr |-> <<>>, Parent |-> Nil,
     FirstChild |-> Nil, LastChild |-> Nil, PrevSibling |-> Nil,
     NextSibling |-> Nil]

NoCall == [op |-> "none", tag |-> "", attr |-> "", attrValue |-> "", count |-> -1]

VARIABLES
    heap,        \* Seq of html.Node structs: heap[p] is *p
    pc,          \* "build" | "removing" | "stripping" | "done" | "panic"
    call,        \* the call in progress or finished, with its arguments
    foundNodes,  \* the slice GetHtmlNodes returned (result or worklist)
    idx,         \* position of the loop over the worklist (1-based)
    ret,         \* the *html.Node GetFirstHtmlNode returned, or Nil
    err,         \* the error returned: "nil" or "ErrNodeNotFound"
    heap0        \* the heap as it was when the call was made

vars == <<heap, pc, call, foundNodes, idx, ret, err, heap0>>

Root == 1

\* --------------------------------------------------------------- the search

\* mutant: the loop over the children never looks at the count
DescendAlways(count, found) == TRUE

\* src/htmlutil.go:66  the guard of the recursion into a child
Descend(count, found) == count = -1 \/ Len(found) < count

\* src/htmlutil.go:55  the guard of the break out of the attribute loop
LimitReached(count, found) == count # -1 /\ Len(found) >= count

\* src/htmlutil.go:52-53  one attribute pair against the criteria
AttrMatches(a, attr, attrValue) ==
    (attr = "" \/ a[1] = attr) /\ (attrValue = "" \/ a[2] = attrValue)

\* src/htmlutil.go:51-60  for _, a := range n.Attr { ... }
RECURSIVE AttrLoop(_, _, _, _, _, _, _)
AttrLoop(h, n, k, attr, attrValue, count, found) ==
    IF k > Len(h[n].Attr) THEN found
    ELSE IF AttrMatches(h[n].Attr[k], attr, attrValue)
         THEN LET found1 == Append(found, n)
              IN IF LimitReached(count, found1) THEN found1
                 ELSE AttrLoop(h, n, k + 1, attr, attrValue, count, found1)
         ELSE AttrLoop(h, n, k + 1, attr, attrValue, count, found)

\* src/htmlutil.go:43  the element and tag test
TagMatches(h, n, tag) ==
    h[n].Type = "ElementNode" /\ (tag = "" \/ h[n].Data = tag)

\* src/htmlutil.go:41-70  the closure f, and its loop over the children
RECURSIVE f(_, _, _, _, _, _, _)
RECURSIVE ChildLoop(_, _, _, _, _, _, _)
f(h, n, tag, attr, attrValue, count, found) ==
    LET found1 ==
            IF TagMatches(h, n, tag)
            THEN IF attr = "" /\ attrValue = ""
                 THEN Append(found, n)
                 ELSE AttrLoop(h, n, 1, attr, attrValue, count, found)
            ELSE found
    IN ChildLoop(h, h[n].FirstChild, tag, attr, attrValue, count, found1)

ChildLoop(h, c, tag, attr, attrValue, count, found) ==
    IF c = Nil THEN found
    ELSE ChildLoop(h, h[c].NextSibling, tag, attr, attrValue, count,
                   IF Descend(count, found)
                   THEN f(h, c, tag, attr, attrValue, count, found)
                   ELSE found)

GetHtmlNodes(h, n, tag, attr, attrValue, count) ==
    f(h, n, tag, attr, attrValue, count, <<>>)

GetAllHtmlNodes(h, n, tag, attr, attrValue) ==
    GetHtmlNodes(h, n, tag, attr, attrValue, -1)

\* ------------------------------------------------------------ the input tree
\* The tree the caller passes in, as the parser builds it: html.Node.AppendChild
\* for a new last child, and one more pair at the end of an element's Attr.

NumAttrs(h) ==
    LET RECURSIVE Sum(_)
        Sum(k) == IF k = 0 THEN 0 ELSE Len(h[k].Attr) + Sum(k - 1)
    IN Sum(Len(h))

Size(h) == Len(h) + NumAttrs(h)

AppendChild(h, p, type, data) ==
    LET c == Len(h) + 1
        last == h[p].LastChild
        node == [ZeroNode EXCEPT !.Type = type, !.Data = data,
                                 !.Parent = p, !.PrevSibling = last]
        h1 == Append(h, node)
        h2 == IF last = Nil
              THEN [h1 EXCEPT ![p].FirstChild = c]
              ELSE [h1 EXCEPT ![last].NextSibling = c]
    IN [h2 EXCEPT ![p].LastChild = c]

Init ==
    /\ \E tag \in Tags :
           heap = <<[ZeroNode EXCEPT !.Type = "ElementNode", !.Data = tag]>>
    /\ pc = "build"
    /\ call = NoCall
    /\ foundNodes = <<>>
    /\ idx = 0
    /\ ret = Nil
    /\ err = "nil"
    /\ heap0 = <<>>

NewElement ==
    /\ pc = "build"
    /\ Size(heap) < MaxSize
    /\ \E p \in 1..Len(heap), tag \in Tags :
           /\ heap[p].Type = "ElementNode"
           /\ heap' = AppendChild(heap, p, "ElementNode", tag)
    /\ UNCHANGED <<pc, call, foundNodes, idx, ret, err, heap0>>

NewText ==
    /\ pc = "build"
    /\ Size(heap) < MaxSize
    /\ \E p \in 1..Len(heap) :
           /\ heap[p].Type = "ElementNode"
           /\ heap' = AppendChild(heap, p, "TextNode", "p")
    /\ UNCHANGED <<pc, call, foundNodes, idx, ret, err, heap0>>

NewAttr ==
    /\ pc = "build"
    /\ Size(heap) < MaxSize
    /\ \E n \in 1..Len(heap), a \in AttrPairs :
           /\ heap[n].Type = "ElementNode"
           /\ heap' = [heap EXCEPT ![n].Attr = Append(@, a)]
    /\ UNCHANGED <<pc, call, foundNodes, idx, ret, err, heap0>>

\* ----------------------------------------------------------------- the calls

CallGetHtmlNodes ==
    /\ pc = "build"
    /\ \E tag \in TagArgs, attr \in AttrArgs, attrValue \in ValArgs,
          count \in CountArgs :
           /\ call' = [op |-> "GetHtmlNodes", tag |-> tag, attr |-> attr,
                       attrValue |-> attrValue, count |-> count]
           /\ foundNodes' = GetHtmlNodes(heap, Root, tag, attr, attrValue, count)
    /\ pc' = "done"
    /\ heap0' = heap
    /\ UNCHANGED <<heap, idx, ret, err>>

\* mutant: nil instead of a new empty node when nothing is found
GetFirstHtmlNodeNil(h, n, tag, attr, attrValue) ==
    LET htmlNodes == GetHtmlNodes(h, n, tag, attr, attrValue, 1)
    IN IF Len(htmlNodes) > 0
       THEN [heap |-> h, node |-> htmlNodes[1]]
       ELSE [heap |-> h, node |-> Nil]

\* src/htmlutil.go:20-28  GetFirstHtmlNode: the head of the search with count 1,
\* or a newly allocated &html.Node{}
GetFirstHtmlNode(h, n, tag, attr, attrValue) ==
    LET htmlNodes == GetHtmlNodes(h, n, tag, attr, attrValue, 1)
    IN IF Len(htmlNodes) > 0
       THEN [heap |-> h, node |-> htmlNodes[1]]
       ELSE [heap |-> Append(h, ZeroNode), node |-> Len(h) + 1]

CallGetFirstHtmlNode ==
    /\ pc = "build"
    /\ \E tag \in TagArgs, attr \in AttrArgs, attrValue \in ValArgs :
           LET r == GetFirstHtmlNode(heap, Root, tag, attr, attrValue)
           IN /\ call' = [op |-> "GetFirstHtmlNode", tag |-> tag, attr |-> attr,
                          attrValue |-> attrValue, count |-> 1]
              /\ heap' = r.heap
              /\ ret' = r.node
    /\ pc' = "done"
    /\ heap0' = heap
    /\ UNCHANGED <<foundNodes, idx, err>>

\* ------------------------------------------- the search that reports an error

\* src/unnamed/part_000:49-65  for _, a := range n.Attr { ... }
RECURSIVE AttrLoopV0(_, _, _, _, _, _, _)
AttrLoopV0(h, n, k, attr, attrValue, count, found) ==
    IF k > Len(h[n].Attr) THEN found
    ELSE LET a == h[n].Attr[k]
             hit == IF attrValue = ""
                    THEN a[1] = attr
                    ELSE a[1] = attr /\ a[2] = attrValue
         IN IF hit
            THEN LET found1 == Append(found, n)
                 IN IF count # -1 /\ Len(found1) >= count THEN found1
                    ELSE AttrLoopV0(h, n, k + 1, attr, attrValue, count, found1)
            ELSE AttrLoopV0(h, n, k + 1, attr, attrValue, count, found)

\* src/unnamed/part_000:43-75  the closure f, and its loop over the children
RECURSIVE fV0(_, _, _, _, _, _, _)
RECURSIVE ChildLoopV0(_, _, _, _, _, _, _)
fV0(h, n, tag, attr, attrValue, count, found) ==
    LET found1 ==
            IF h[n].Type = "ElementNode" /\ h[n].Data = tag
            THEN IF attr = ""
                 THEN Append(found, n)
                 ELSE AttrLoopV0(h, n, 1, attr, attrValue, count, found)
            ELSE found
    IN ChildLoopV0(h, h[n].FirstChild, tag, attr, attrValue, count, found1)

ChildLoopV0(h, c, tag, attr, attrValue, count, found) ==
    IF c = Nil THEN found
    ELSE ChildLoopV0(h, h[c].NextSibling, tag, attr, attrValue, count,
                     IF count = -1 \/ Len(found) < count
                     THEN fV0(h, c, tag, attr, attrValue, count, found)
                     ELSE found)

\* mutant: the error is never set
NotFoundErrNever(found) == "nil"

\* src/unnamed/part_000:78-80  the error for an empty result
NotFoundErr(found) == IF Len(found) = 0 THEN "ErrNodeNotFound" ELSE "nil"

GetHtmlNodesV0(h, n, tag, attr, attrValue, count) ==
    LET found == fV0(h, n, tag, attr, attrValue, count, <<>>)
    IN [nodes |-> found, err |-> NotFoundErr(found)]

GetAllHtmlNodesV0(h, n, tag, attr, attrValue) ==
    GetHtmlNodesV0(h, n, tag, attr, attrValue, -1)

\* src/unnamed/part_000:21-29
GetFirstHtmlNodeV0(h, n, tag, attr, attrValue) ==
    LET r == GetHtmlNodesV0(h, n, tag, attr, attrValue, 1)
    IN IF Len(r.nodes) > 0
       THEN [heap |-> h, node |-> r.nodes[1], err |-> r.err]
       ELSE [heap |-> Append(h, ZeroNode), node |-> Len(h) + 1, err |-> r.err]

CallGetHtmlNodesV0 ==
    /\ pc = "build"
    /\ \E tag \in TagArgs, attr \in AttrArgs, attrValue \in ValArgs,
          count \in CountArgs :
           LET r == GetHtmlNodesV0(heap, Root, tag, attr, attrValue, count)
           IN /\ call' = [op |-> "GetHtmlNodesV0", tag |-> tag, attr |-> attr,
                          attrValue |-> attrValue, count |-> count]
              /\ foundNodes' = r.nodes
              /\ err' = r.err
    /\ pc' = "done"
    /\ heap0' = heap
    /\ UNCHANGED <<heap, idx, ret>>

CallGetFirstHtmlNodeV0 ==
    /\ pc = "build"
    /\ \E tag \in TagArgs, attr \in AttrArgs, attrValue \in ValArgs :
           LET r == GetFirstHtmlNodeV0(heap, Root, tag, attr, attrValue)
           IN /\ call' = [op |-> "GetFirstHtmlNodeV0", tag |-> tag, attr |-> attr,
                          attrValue |-> attrValue, count |-> 1]
              /\ heap' = r.heap
              /\ ret' = r.node
              /\ err' = r.err
    /\ pc' = "done"
    /\ heap0' = heap
    /\ UNCHANGED <<foundNodes, idx>>

\* ------------------------------------------------------------- node removal

\* html.Node.RemoveChild of golang.org/x/net/html, as RemoveHtmlNodes calls it
\* on the node's own Parent.  With a nil receiver the test c.Parent != n passes
\* only for a c without parent, and the read of n.FirstChild that follows is a
\* nil dereference: the call panics either way, before any write.
RemoveChild(h, n, c) ==
    IF n = Nil \/ h[c].Parent # n
    THEN [heap |-> h, panic |-> TRUE]
    ELSE LET next == h[c].NextSibling
             prev == h[c].PrevSibling
             h1 == IF h[n].FirstChild = c THEN [h EXCEPT ![n].FirstChild = next] ELSE h
             h2 == IF next # Nil THEN [h1 EXCEPT ![next].PrevSibling = prev] ELSE h1
             h3 == IF h2[n].LastChild = c THEN [h2 EXCEPT ![n].LastChild = prev] ELSE h2
             h4 == IF prev # Nil THEN [h3 EXCEPT ![prev].NextSibling = next] ELSE h3
         IN [heap |-> [h4 EXCEPT ![c].Parent = Nil, ![c].PrevSibling = Nil,
                                 ![c].NextSibling = Nil],
             panic |-> FALSE]

\* mutant: the node's parent link is cleared and the parent's child chain is
\* left as it was
DetachParentOnly(h, c) ==
    IF h[c].Parent = Nil
    THEN [heap |-> h, panic |-> TRUE]
    ELSE [heap |-> [h EXCEPT ![c].Parent = Nil], panic |-> FALSE]

\* src/htmlutil.go:150  nodesToDelete[i].Parent.RemoveChild(nodesToDelete[i])
Detach(h, c) == RemoveChild(h, h[c].Parent, c)

\* src/htmlutil.go:149  the loop starts at the last entry of the worklist
FirstToDelete(nodesToDelete) == Len(nodesToDelete)

\* src/htmlutil.go:149  i--
NextToDelete(i) == i - 1

\* src/htmlutil.go:145-147
CallRemoveHtmlNodes ==
    /\ pc = "build"
    /\ \E tag \in TagArgs, attr \in AttrArgs, attrValue \in ValArgs,
          count \in CountArgs :
           LET nodesToDelete == GetHtmlNodes(heap, Root, tag, attr, attrValue, count)
           IN /\ call' = [op |-> "RemoveHtmlNodes", tag |-> tag, attr |-> attr,
                          attrValue |-> attrValue, count |-> count]
              /\ foundNodes' = nodesToDelete
              /\ idx' = FirstToDelete(nodesToDelete)
              /\ pc' = IF Len(nodesToDelete) > 0 THEN "removing" ELSE "done"
    /\ heap0' = heap
    /\ UNCHANGED <<heap, ret, err>>

\* src/htmlutil.go:149-151  one turn of the loop over nodesToDelete
RemoveStep ==
    /\ pc = "removing"
    /\ LET r == Detach(heap, foundNodes[idx])
       IN IF r.panic
          THEN /\ pc' = "panic"
               /\ UNCHANGED <<heap, idx>>
          ELSE /\ heap' = r.heap
               /\ idx' = NextToDelete(idx)
               /\ pc' = IF NextToDelete(idx) >= 1 THEN "removing" ELSE "done"
    /\ UNCHANGED <<call, foundNodes, ret, err, heap0>>

\* -------------------------------------------------------- attribute removal

\* src/htmlutil.go:112  append(Attr[:i], Attr[i+1:]...) on a slice of length
\* s.len over the backing array s.back, i counted from 0.  Attr[:i] may reach up
\* to the capacity; Attr[i+1:] needs i+1 <= len, else the runtime panics with
\* "slice bounds out of range".  The copy shifts back[i+1..len-1] one place down
\* inside the same backing array and leaves its last cell as it was.
DeleteAt(s, i) ==
    IF i + 1 > s.len
    THEN [s EXCEPT !.panic = TRUE]
    ELSE [back |-> [j \in 1..Len(s.back) |->
                       IF j >= i + 1 /\ j <= s.len - 1 THEN s.back[j + 1]
                       ELSE s.back[j]],
          len |-> s.len - 1,
          panic |-> FALSE]

\* src/htmlutil.go:107-118  processNode.  The range expression is evaluated once:
\* the loop runs i over 0..n-1 for the length n the slice had on entry and reads
\* a from the backing array, which the deletions of this and of the nested calls
\* write to.
RECURSIVE RangeLoop(_, _, _, _, _)
RangeLoop(s, i, n, attr, attrValue) ==
    IF s.panic \/ i >= n THEN s
    ELSE LET a == s.back[i + 1]
         IN IF a[1] = attr /\ a[2] = attrValue
            THEN LET s1 == DeleteAt(s, i)
                     s2 == IF s1.panic THEN s1
                           ELSE RangeLoop(s1, 0, s1.len, attr, attrValue)
                 IN RangeLoop(s2, i + 1, n, attr, attrValue)
            ELSE RangeLoop(s, i + 1, n, attr, attrValue)

processNode(attrs, attr, attrValue) ==
    LET s == RangeLoop([back |-> attrs, len |-> Len(attrs), panic |-> FALSE],
                       0, Len(attrs), attr, attrValue)
    IN [Attr |-> SubSeq(s.back, 1, s.len), panic |-> s.panic]

\* src/htmlutil.go:120  the worklist of RemoveHtmlAttrs
CallRemoveHtmlAttrs ==
    /\ pc = "build"
    /\ \E tag \in TagArgs, attr \in AttrArgs, attrValue \in ValArgs,
          count \in CountArgs :
           LET work == GetHtmlNodes(heap, Root, tag, attr, attrValue, count)
           IN /\ call' = [op |-> "RemoveHtmlAttrs", tag |-> tag, attr |-> attr,
                          attrValue |-> attrValue, count |-> count]
              /\ foundNodes' = work
              /\ idx' = 1
              /\ pc' = IF Len(work) > 0 THEN "stripping" ELSE "done"
    /\ heap0' = heap
    /\ UNCHANGED <<heap, ret, err>>

\* src/htmlutil.go:120-122  one turn of the loop over the worklist
StripStep ==
    /\ pc = "stripping"
    /\ LET n == foundNodes[idx]
           r == processNode(heap[n].Attr, call.attr, call.attrValue)
       IN /\ heap' = [heap EXCEPT ![n].Attr = r.Attr]
          /\ IF r.panic
             THEN /\ pc' = "panic"
                  /\ UNCHANGED idx
             ELSE /\ idx' = idx + 1
                  /\ pc' = IF idx + 1 <= Len(foundNodes) THEN "stripping" ELSE "done"
    /\ UNCHANGED <<call, foundNodes, ret, err, heap0>>

Next ==
    \/ NewElement
    \/ NewText
    \/ NewAttr
    \/ CallGetHtmlNodes
    \/ CallGetFirstHtmlNode
    \/ CallGetHtmlNodesV0
    \/ CallGetFirstHtmlNodeV0
    \/ CallRemoveHtmlNodes
    \/ RemoveStep
    \/ CallRemoveHtmlAttrs
    \/ StripStep

Spec == Init /\ [][Next]_vars

\* the searches alone
NextSearch ==
    \/ NewElement
    \/ NewText
    \/ NewAttr
    \/ CallGetHtmlNodes
    \/ CallGetFirstHtmlNode
    \/ CallGetHtmlNodesV0
    \/ CallGetFirstHtmlNodeV0

SpecSearch == Init /\ [][NextSearch]_vars

\* node removal alone
NextRemoveNodes ==
    \/ NewElement
    \/ NewText
    \/ NewAttr
    \/ CallRemoveHtmlNodes
    \/ RemoveStep

SpecRemoveNodes == Init /\ [][NextRemoveNodes]_vars

\* attribute removal alone
NextRemoveAttrs ==
    \/ NewElement
    \/ NewText
    \/ NewAttr
    \/ CallRemoveHtmlAttrs
    \/ StripStep

SpecRemoveAttrs == Init /\ [][NextRemoveAttrs]_vars

\* ------------------------------------------------- what the claims speak of

Ended == pc \in {"done", "panic"}

\* the nodes under n in document order, read off the links
RECURSIVE PreOrder(_, _)
RECURSIVE PreOrderChain(_, _)
PreOrder(h, n) == <<n>> \o PreOrderChain(h, h[n].FirstChild)
PreOrderChain(h, c) ==
    IF c = Nil THEN <<>>
    ELSE PreOrder(h, c) \o PreOrderChain(h, h[c].NextSibling)

\* node n satisfies the criteria of section 4.1
Satisfies(h, n, tag, attr, attrValue) ==
    /\ h[n].Type = "ElementNode"
    /\ tag = "" \/ h[n].Data = tag
    /\ \/ attr = "" /\ attrValue = ""
       \/ \E k \in 1..Len(h[n].Attr) :
              /\ attr = "" \/ h[n].Attr[k][1] = attr
              /\ attrValue = "" \/ h[n].Attr[k][2] = attrValue

\* the satisfying nodes in document order, each once
Matching(h, n, tag, attr, attrValue) ==
    LET Keep(x) == Satisfies(h, x, tag, attr, attrValue)
    IN SelectSeq(PreOrder(h, n), Keep)

Range(seq) == {seq[k] : k \in 1..Len(seq)}

Min(a, b) == IF a < b THEN a ELSE b

IsPrefix(s, t) == Len(s) <= Len(t) /\ s = SubSeq(t, 1, Len(s))

\* ------------------------------------------------------------------- C1
\* C1: GetHtmlNodes with count -1 returns exactly the element nodes of the tree
\* that satisfy the criteria, in document order, each node once.
C1_ExactlyTheMatchingNodesOnce ==
    (pc = "done" /\ call.op = "GetHtmlNodes" /\ call.count = -1)
        => foundNodes = Matching(heap0, Root, call.tag, call.attr, call.attrValue)

\* ------------------------------------------------------------------- C2
\* C2: with a bounded count k >= 1 GetHtmlNodes returns a prefix of what it
\* returns with count -1, of length min(k, length of that result).
C2_BoundedIsPrefixOfUnbounded ==
    (pc = "done" /\ call.op = "GetHtmlNodes" /\ call.count >= 1)
        => LET all == GetAllHtmlNodes(heap0, Root, call.tag, call.attr, call.attrValue)
           IN /\ Len(foundNodes) = Min(call.count, Len(all))
              /\ Len(foundNodes) <= call.count
              /\ IsPrefix(foundNodes, all)

\* the limit cuts the result short, the root matches, and the branch for empty
\* attribute criteria did the appending
C2_Witness ==
    /\ pc = "done" /\ call.op = "GetHtmlNodes" /\ call.count >= 1
    /\ call.attr = "" /\ call.attrValue = ""
    /\ Len(foundNodes) = call.count
    /\ foundNodes[1] = Root
    /\ Len(GetAllHtmlNodes(heap0, Root, call.tag, call.attr, call.attrValue))
           > call.count

\* ------------------------------------------------------------------- C3
\* C3: RemoveHtmlNodes with count -1 completes, and the same search on the same
\* root then finds nothing.
C3_RemoveAllThenSearchIsEmpty ==
    (Ended /\ call.op = "RemoveHtmlNodes" /\ call.count = -1)
        => /\ pc = "done"
           /\ GetAllHtmlNodes(heap, Root, call.tag, call.attr, call.attrValue) = <<>>

\* ------------------------------------------------------------------- C4
\* the child chain of p, cut after fuel nodes
RECURSIVE Chain(_, _, _)
Chain(h, c, fuel) ==
    IF c = Nil \/ fuel = 0 THEN <<>>
    ELSE <<c>> \o Chain(h, h[c].NextSibling, fuel - 1)

Children(h, p) == Chain(h, h[p].FirstChild, Len(h))

\* C4: the worklist is detached from its last entry to its first, and when an
\* entry is about to be detached it has a parent and is in that parent's child
\* chain.
C4_EveryDetachIsValid ==
    (pc = "removing")
        => /\ idx \in 1..Len(foundNodes)
           /\ \A j \in 1..Len(foundNodes) :
                  (j > idx) => heap[foundNodes[j]].Parent = Nil
           /\ heap[foundNodes[idx]].Parent # Nil
           /\ foundNodes[idx] \in Range(Children(heap, heap[foundNodes[idx]].Parent))

\* ------------------------------------------------------------------- C5
\* the nodes below n: what the first-child and next-sibling links lead to
RECURSIVE Below(_, _, _)
Below(h, n, fuel) ==
    IF fuel = 0 THEN {}
    ELSE LET kids == Range(Children(h, n))
         IN kids \cup UNION {Below(h, k, fuel - 1) : k \in kids}

Descendants(h, n) == Below(h, n, Len(h))

\* the child chain of p ends: it reaches nil without meeting a node twice
ChainEnds(h, p) ==
    LET ch == Chain(h, h[p].FirstChild, Len(h) + 1)
    IN Len(ch) <= Len(h) /\ Cardinality(Range(ch)) = Len(ch)

\* the entries already detached by the loop of RemoveHtmlNodes
Detached == {foundNodes[j] : j \in (idx + 1)..Len(foundNodes)}

TreeConsistent(h, root, gone) ==
    LET under == Descendants(h, root)
    IN /\ \A p \in under \cup {root} :
              /\ ChainEnds(h, p)
              /\ \A c \in Range(Children(h, p)) : h[c].Parent = p
       /\ under \cap gone = {}

\* the call matched a node and one of its descendants
NestedMatch ==
    \E a \in Range(foundNodes), d \in Range(foundNodes) :
        d \in Descendants(heap0, a)

\* C5: when RemoveHtmlNodes has matched a node and one of its descendants, the
\* tree under the root is consistent once the call has ended: every node reached
\* from the root has its parent link on the node whose child chain holds it, no
\* detached node is reached, and the child chains end.
C5_TreeConsistentAfterNestedRemoval ==
    (Ended /\ call.op = "RemoveHtmlNodes" /\ NestedMatch)
        => TreeConsistent(heap, Root, Detached)

\* the call returned after detaching a node and, before it, its descendant
C5_Witness ==
    /\ pc = "done" /\ call.op = "RemoveHtmlNodes"
    /\ Len(foundNodes) >= 2
    /\ \E i \in 1..Len(foundNodes), j \in 1..Len(foundNodes) :
           /\ i < j
           /\ foundNodes[j] \in Descendants(heap0, foundNodes[i])
           /\ heap[foundNodes[i]].Parent = Nil
           /\ heap[foundNodes[j]].Parent = Nil
    /\ Descendants(heap, Root) # Descendants(heap0, Root)

\* ------------------------------------------------------------------- C6
\* the sequence without the pairs equal to (attr, attrValue)
WithoutPair(attrs, attr, attrValue) ==
    LET Keep(a) == ~(a[1] = attr /\ a[2] = attrValue)
    IN SelectSeq(attrs, Keep)

\* C6: for a non-empty key and value RemoveHtmlAttrs with count -1 returns
\* having left every matched node with its attribute sequence minus exactly the
\* pairs equal to (key, value), the rest in order, and every other node as it
\* was; the same call made again changes nothing.
C6_RemovesAllAndOnlyMatchingPairs ==
    (Ended /\ call.op = "RemoveHtmlAttrs" /\ call.count = -1
           /\ call.attr # "" /\ call.attrValue # "")
        => LET matched == Range(GetAllHtmlNodes(heap0, Root, call.tag,
                                                call.attr, call.attrValue))
               again == GetAllHtmlNodes(heap, Root, call.tag, call.attr,
                                        call.attrValue)
           IN /\ pc = "done"
              /\ \A n \in 1..Len(heap0) :
                     heap[n].Attr =
                         IF n \in matched
                         THEN WithoutPair(heap0[n].Attr, call.attr, call.attrValue)
                         ELSE heap0[n].Attr
              /\ \A k \in 1..Len(again) :
                     processNode(heap[again[k]].Attr, call.attr,
                                 call.attrValue).Attr = heap[again[k]].Attr

\* ------------------------------------------------------------------- C7
\* the node is a fresh &html.Node{}: allocated by the call, not a node of the
\* tree, all fields zero
IsPlaceholder(p) ==
    /\ p # Nil
    /\ p \notin 1..Len(heap0)
    /\ p \in 1..Len(heap)
    /\ heap[p] = ZeroNode
    /\ \A n \in 1..Len(heap0) : heap[n] = heap0[n]

\* C7: GetFirstHtmlNode returns the first element of the search with count -1
\* when there is one, and else a fresh empty node that is no node of the tree
\* (in both variants of the package).
C7_FirstOrPlaceholder ==
    /\ (pc = "done" /\ call.op = "GetFirstHtmlNode")
           => LET all == GetAllHtmlNodes(heap0, Root, call.tag, call.attr,
                                         call.attrValue)
              IN IF Len(all) > 0 THEN ret = all[1] /\ heap = heap0
                 ELSE IsPlaceholder(ret)
    /\ (pc = "done" /\ call.op = "GetFirstHtmlNodeV0")
           => LET all == GetAllHtmlNodesV0(heap0, Root, call.tag, call.attr,
                                           call.attrValue).nodes
              IN IF Len(all) > 0 THEN ret = all[1] /\ heap = heap0
                 ELSE IsPlaceholder(ret)

\* the root does not match, a node below it does, and the search has more than
\* one entry: the call returned the first of them
C7_Witness ==
    /\ pc = "done" /\ call.op = "GetFirstHtmlNode"
    /\ ret # Root /\ ret \in 1..Len(heap0)
    /\ Len(GetAllHtmlNodes(heap0, Root, call.tag, call.attr, call.attrValue)) > 1

\* ------------------------------------------------------------------- C8
\* C8: in the variant that reports errors GetHtmlNodes returns ErrNodeNotFound
\* exactly when it returns no node and a nil error otherwise; GetFirstHtmlNode
\* returns the error of its search, ErrNodeNotFound exactly together with the
\* empty placeholder node.
C8_ErrNodeNotFoundIffEmpty ==
    /\ (pc = "done" /\ call.op = "GetHtmlNodesV0")
           => /\ err \in {"nil", "ErrNodeNotFound"}
              /\ (err = "ErrNodeNotFound") <=> (foundNodes = <<>>)
    /\ (pc = "done" /\ call.op = "GetFirstHtmlNodeV0")
           => /\ err = GetHtmlNodesV0(heap0, Root, call.tag, call.attr,
                                      call.attrValue, 1).err
              /\ (err = "ErrNodeNotFound") <=> IsPlaceholder(ret)
              /\ (err = "nil") <=> (ret \in 1..Len(heap0))

\* a tree with elements in which the criteria match nothing: the error is set
C8_Witness ==
    /\ pc = "done" /\ call.op = "GetHtmlNodesV0"
    /\ Len(heap0) >= 2
    /\ foundNodes = <<>>
    /\ err = "ErrNodeNotFound"

\* ------------------------------------------------------------------- C9
\* C9: RemoveHtmlAttrs with a bounded count k >= 1 removes at most k attribute
\* pairs in the whole tree (RemoveFirstHtmlAttr: at most the one).
C9_RemovesAtMostCountPairs ==
    (pc = "done" /\ call.op = "RemoveHtmlAttrs" /\ call.count >= 1)
        => NumAttrs(heap0) - NumAttrs(heap) <= call.count

\* ------------------------------------------------------------------ C10
\* C10: processNode always finishes normally: no slice expression it evaluates
\* is out of range.
C10_ProcessNodeNeverPanics ==
    (call.op = "RemoveHtmlAttrs") => pc # "panic"

====
